---- MODULE Spec2Model ----
(***************************************************************************)
(* Model of the overlay agent of p2p.go: the peer registry                 *)
(* (PTPCloud.NetworkPeers), the reconcile loop of main (PurgePeers,        *)
(* SyncPeers, IntroducePeers) and the datagram handler HandleP2PMessage.   *)
(*                                                                         *)
(* Every per-agent variable is a function over the agents of the run.      *)
(* Spec      : one agent "p0" in an open environment that changes the      *)
(*             rendezvous view and delivers arbitrary datagrams.           *)
(* SpecPair  : two agents "p1" and "p2" under a stable view that lists     *)
(*             each other, joined by a loss-free network, with fair        *)
(*             scheduling.                                                 *)
(* SpecRace  : the agent with SyncPeers and AddPeer taken statement by     *)
(*             statement, as the unsynchronized goroutines run them.       *)
(* SpecBoot  : the agent from the first line of main, with CreateDevice.   *)
(* SpecMerge : the reconcile loop under views with repeated, placeholder   *)
(*             and unresolvable addresses.                                 *)
(* SpecSend  : the agent with SendTo and failing sends.                    *)
(* SpecShift : the agent with PurgePeers running inside the loop of        *)
(*             AddPeer.                                                    *)
(***************************************************************************)
EXTENDS Integers, Sequences, FiniteSets, TLC

VARIABLES NetworkPeers, dhtPeers, Device, pc, count, pend, crashed, quiet,
          stable, net, sent, tap, ret, last

vars == <<NetworkPeers, dhtPeers, Device, pc, count, pend, crashed, quiet,
          stable, net, sent, tap, ret, last>>

(***************************************************************************)
(* Bounds of the model.                                                    *)
(***************************************************************************)
\* longest rendezvous view (dht.Peers) the environment produces
MaxView == 2
\* longest registry: an INTRO that would append beyond it is not delivered
MaxPeers == 3
\* longest KnownIPs list: a SyncPeers pass that would exceed it is not taken
MaxKnown == 2

(***************************************************************************)
(* Values of the net package.                                              *)
(***************************************************************************)
\* a nil *net.UDPAddr
NilAddr == [IP |-> "nil", Port |-> "nil"]
\* a nil net.IP
NilIP == "nil-ip"
\* a nil net.HardwareAddr; its String() is the empty string
NilHW == ""

\* net.ResolveUDPAddr("udp", s): the address, or nil with an error
ResolveUDPAddr(s) ==
  CASE s = "1.1.1.1:5"  -> [IP |-> "1.1.1.1", Port |-> "5"]
    [] s = "2.2.2.2:5"  -> [IP |-> "2.2.2.2", Port |-> "5"]
    [] s = "3.3.3.3:5"  -> [IP |-> "3.3.3.3", Port |-> "5"]
    [] s = "10.0.0.1:5" -> [IP |-> "10.0.0.1", Port |-> "5"]
    [] s = "10.0.0.2:5" -> [IP |-> "10.0.0.2", Port |-> "5"]
    [] OTHER            -> NilAddr

\* (*net.UDPAddr).String(): "<nil>" for a nil receiver
AddrString(a) == IF a = NilAddr THEN "<nil>" ELSE a.IP \o ":" \o a.Port

\* net.ParseMAC: the canonical (lower-case) hardware address, nil on error
ParseMAC(s) ==
  CASE s = "06:0A" -> "06:0a"
    [] s = "06:0a" -> "06:0a"
    [] s = "06:0B" -> "06:0b"
    [] s = "06:0b" -> "06:0b"
    [] s = "06:0c" -> "06:0c"
    [] OTHER       -> NilHW

\* net.ParseIP: nil when the text is neither IPv4 nor IPv6
ParseIP(s) ==
  CASE s = "10.9.0.1" -> "10.9.0.1"
    [] s = "10.9.0.2" -> "10.9.0.2"
    [] s = "10.9.0.3" -> "10.9.0.3"
    [] OTHER          -> NilIP

\* (*net.IPNet).Contains for the networks of the host's interfaces
Contains(network, ip) ==
  \/ network = "10.0.0.0/24" /\ ip \in {"10.0.0.1", "10.0.0.2"}
  \/ network = "10.9.0.0/24" /\ ip \in {"10.9.0.1", "10.9.0.2", "10.9.0.3"}

\* net.Interfaces() with each interface's Addrs(), as CIDR networks
Interfaces ==
  << [Name |-> "lo",    Addrs |-> <<"127.0.0.0/8">>],
     [Name |-> "eth0",  Addrs |-> <<"10.0.0.0/24">>],
     [Name |-> "vptp1", Addrs |-> <<"10.9.0.0/24">>] >>

\* PTPCloud.DeviceName
DeviceName == "vptp1"

(***************************************************************************)
(* Configuration of an agent: dht.ID is the agent's name.                  *)
(***************************************************************************)
\* PTPCloud.Mac, the text given with -mac
Mac(n) == CASE n = "p1" -> "06:0A" [] n = "p2" -> "06:0B" [] OTHER -> "06:0c"
\* PTPCloud.HardwareAddr, parsed from it in main
HardwareAddr(n) == ParseMAC(Mac(n))
\* PTPCloud.IP, the text given with -ip
IP(n) == CASE n = "p1" -> "10.9.0.1" [] n = "p2" -> "10.9.0.2" [] OTHER -> "10.9.0.3"
\* the transport address other hosts see for the agent's UDPSocket
SockAddr(n) ==
  CASE n = "p1" -> ResolveUDPAddr("1.1.1.1:5")
    [] n = "p2" -> ResolveUDPAddr("2.2.2.2:5")
    [] OTHER    -> ResolveUDPAddr("3.3.3.3:5")

(***************************************************************************)
(* NetworkPeer.                                                            *)
(***************************************************************************)
\* the zero value of NetworkPeer (var newPeer NetworkPeer)
ZeroPeer ==
  [ID |-> "", Unknown |-> FALSE, Handshaked |-> FALSE, CleanAddr |-> "",
   PeerAddr |-> NilAddr, PeerLocalIP |-> NilIP, PeerHW |-> NilHW,
   Endpoint |-> "", KnownIPs |-> <<>>]

\* the ids of the records of a registry
IdsOf(peers) == {peers[i].ID : i \in 1..Len(peers)}
\* the ids of a rendezvous view
ViewIds(view) == {view[i].ID : i \in 1..Len(view)}

\* s without its element at position k (1-based)
RemoveAt(s, k) == SubSeq(s, 1, k - 1) \o SubSeq(s, k + 1, Len(s))

(***************************************************************************)
(* PurgePeers.  rem holds the Go indices (0-based) of the records whose id *)
(* is not in dht.Peers, in ascending order; the second loop removes index  *)
(* i from the registry as it is at that moment.  NetworkPeers[i+1:] panics *)
(* when i+1 exceeds the current length.                                    *)
(***************************************************************************)
RECURSIVE PurgeRem(_, _, _)
PurgeRem(peers, view, i) ==
  IF i > Len(peers) THEN <<>>
  ELSE (IF peers[i].ID \in ViewIds(view) THEN <<>> ELSE <<i - 1>>)
       \o PurgeRem(peers, view, i + 1)

RECURSIVE PurgeRemove(_, _)
PurgeRemove(peers, rem) ==
  IF rem = <<>> THEN [panic |-> FALSE, peers |-> peers]
  ELSE IF Head(rem) + 1 > Len(peers) THEN [panic |-> TRUE, peers |-> peers]
  ELSE PurgeRemove(RemoveAt(peers, Head(rem) + 1), Tail(rem))

PurgePeersOp(peers, view) == PurgeRemove(peers, PurgeRem(peers, view, 1))

(***************************************************************************)
(* TestConnection.  Whether the probed host echoes a byte within the three *)
(* seconds is decided by the environment: alive is the set of addresses    *)
(* that answer during the pass.  DialUDP fails on a nil address.           *)
(***************************************************************************)
TestConnection(endpoint, alive) == endpoint # NilAddr /\ endpoint \in alive

(***************************************************************************)
(* SyncPeers.                                                              *)
(***************************************************************************)
\* lines 513-529: peer is the range copy of the record, so the duplicate
\* test reads the list as it was when the iteration began
RECURSIVE MergeIps(_, _, _)
MergeIps(peer, known, ips) ==
  IF ips = <<>> THEN known
  ELSE LET ip == Head(ips)
           ipFound == \E k \in 1..Len(peer.KnownIPs) :
                         AddrString(peer.KnownIPs[k]) = ip
       IN  IF ip = "" \/ ip = "0" \/ ipFound
           THEN MergeIps(peer, known, Tail(ips))
           ELSE MergeIps(peer, Append(known, ResolveUDPAddr(ip)), Tail(ips))

\* lines 542-546: the networks of every interface but the overlay's device
RECURSIVE LanNets(_)
LanNets(infs) ==
  IF infs = <<>> THEN <<>>
  ELSE (IF Head(infs).Name = DeviceName THEN <<>> ELSE Head(infs).Addrs)
       \o LanNets(Tail(infs))

\* lines 549-560: kip.IP dereferences a nil address; no break after a hit
RECURSIVE ProbeKnown(_, _, _, _)
ProbeKnown(network, known, st, alive) ==
  IF known = <<>> \/ st.panic THEN st
  ELSE LET kip == Head(known) IN
       IF kip = NilAddr THEN [st EXCEPT !.panic = TRUE]
       ELSE IF Contains(network, kip.IP) /\ TestConnection(kip, alive)
            THEN ProbeKnown(network, Tail(known),
                            [st EXCEPT !.ep = AddrString(kip), !.cnt = @ + 1],
                            alive)
            ELSE ProbeKnown(network, Tail(known), st, alive)

RECURSIVE ProbeNets(_, _, _, _)
ProbeNets(nets, known, st, alive) ==
  IF nets = <<>> \/ st.panic THEN st
  ELSE ProbeNets(Tail(nets), known, ProbeKnown(Head(nets), known, st, alive),
                 alive)

\* line 573: the test reads peer.Endpoint, the range copy, which is still
\* the empty string that line 532 saw
FallbackTaken(peer, known, failback) ==
  failback \/ (peer.Endpoint = "" /\ Len(known) > 0)

\* lines 532-579 for one record: the endpoint, the number of times count was
\* increased, and whether the code panicked (KnownIPs[0] of an empty list).
\* The probe of lines 564-570 is left out: its result is not used.
SelectEndpoint(peer, known, alive, failback) ==
  LET lan == ProbeNets(IF failback THEN <<>> ELSE LanNets(Interfaces), known,
                       [ep |-> "", cnt |-> 0, panic |-> FALSE], alive)
  IN  IF lan.panic THEN lan
      ELSE IF FallbackTaken(peer, known, failback)
           THEN IF Len(known) = 0 THEN [lan EXCEPT !.panic = TRUE]
                ELSE [lan EXCEPT !.ep = AddrString(known[1]), !.cnt = @ + 1]
           ELSE lan

\* SyncRecord with line 586 applied to the record found as well: the merge
\* marks the record unknown again
SyncRecord_Reset(st, i, entry, alive, failback) ==
  LET peer == st.peers[i] IN
  IF st.panic \/ peer.ID # entry.ID THEN st
  ELSE LET known == MergeIps(peer, peer.KnownIPs, entry.Ips)
           sel == IF peer.Endpoint = ""
                  THEN SelectEndpoint(peer, known, alive, failback)
                  ELSE [ep |-> peer.Endpoint, cnt |-> 0, panic |-> FALSE]
       IN  [peers |-> [st.peers EXCEPT ![i].KnownIPs = known,
                                      ![i].Endpoint = sel.ep,
                                      ![i].Unknown = TRUE],
            count |-> st.count + sel.cnt,
            panic |-> sel.panic,
            found |-> TRUE]

\* lines 509-580: the body of the inner loop for the record at position i
SyncRecord(st, i, entry, alive, failback) ==
  LET peer == st.peers[i] IN
  IF st.panic \/ peer.ID # entry.ID THEN st
  ELSE LET known == MergeIps(peer, peer.KnownIPs, entry.Ips)
           sel == IF peer.Endpoint = ""
                  THEN SelectEndpoint(peer, known, alive, failback)
                  ELSE [ep |-> peer.Endpoint, cnt |-> 0, panic |-> FALSE]
       IN  [peers |-> [st.peers EXCEPT ![i].KnownIPs = known,
                                      ![i].Endpoint = sel.ep],
            count |-> st.count + sel.cnt,
            panic |-> sel.panic,
            found |-> TRUE]

RECURSIVE SyncRecords(_, _, _, _, _)
SyncRecords(st, i, entry, alive, failback) ==
  IF i > Len(st.peers) \/ st.panic THEN st
  ELSE SyncRecords(SyncRecord(st, i, entry, alive, failback), i + 1, entry,
                   alive, failback)

\* lines 503-590: one entry of dht.Peers
SyncEntry(st, entry, alive, failback) ==
  IF st.panic \/ entry.ID = "" THEN st
  ELSE LET r == SyncRecords([st EXCEPT !.found = FALSE], 1, entry, alive,
                            failback)
       IN  IF r.panic \/ r.found THEN r
           ELSE [r EXCEPT !.peers =
                   Append(@, [ZeroPeer EXCEPT !.ID = entry.ID,
                                              !.Unknown = TRUE])]

RECURSIVE SyncEntries(_, _, _, _)
SyncEntries(st, view, alive, failback) ==
  IF view = <<>> THEN st
  ELSE SyncEntries(SyncEntry(st, Head(view), alive, failback), Tail(view),
                   alive, failback)

SyncPeersOp(peers, view, alive, failback) ==
  SyncEntries([peers |-> peers, count |-> 0, panic |-> FALSE, found |-> FALSE],
              view, alive, failback)

(***************************************************************************)
(* Messages.  A text is modelled as the sequence of its comma-separated    *)
(* fields, which is what strings.Split(text, ",") returns; the ids, MACs   *)
(* and IPs of the configuration contain no comma.                          *)
(***************************************************************************)
\* id + "," + ptp.Mac + "," + ptp.IP
PrepareIntroductionMessage(n) == <<n, Mac(n), IP(n)>>

Msg(n, type, data, to) ==
  [from |-> SockAddr(n), to |-> to, type |-> type, data |-> data]

(***************************************************************************)
(* IntroducePeers: the registry afterwards and the messages handed to      *)
(* UDPSocket.SendMessage, in order.  A send error is only logged.          *)
(***************************************************************************)
\* IntroducePeers with the test of line 390 inverted: known peers are
\* introduced to, unknown ones skipped
RECURSIVE IntroduceFrom_Known(_, _, _)
IntroduceFrom_Known(n, st, i) ==
  IF i > Len(st.peers) THEN st
  ELSE LET peer == st.peers[i]
           addr == ResolveUDPAddr(peer.Endpoint)
       IN  IF peer.Unknown \/ peer.Endpoint = "" \/ addr = NilAddr
           THEN IntroduceFrom_Known(n, st, i + 1)
           ELSE IntroduceFrom_Known(n,
                  [peers |-> [st.peers EXCEPT ![i].PeerAddr = addr],
                   sent  |-> Append(st.sent,
                               Msg(n, "INTRO", PrepareIntroductionMessage(n),
                                   addr))],
                  i + 1)

RECURSIVE IntroduceFrom(_, _, _)
IntroduceFrom(n, st, i) ==
  IF i > Len(st.peers) THEN st
  ELSE LET peer == st.peers[i]
           addr == ResolveUDPAddr(peer.Endpoint)
       IN  IF ~peer.Unknown \/ peer.Endpoint = "" \/ addr = NilAddr
           THEN IntroduceFrom(n, st, i + 1)
           ELSE IntroduceFrom(n,
                  [peers |-> [st.peers EXCEPT ![i].PeerAddr = addr],
                   sent  |-> Append(st.sent,
                               Msg(n, "INTRO", PrepareIntroductionMessage(n),
                                   addr))],
                  i + 1)

IntroducePeersOp(n, peers) == IntroduceFrom(n, [peers |-> peers, sent |-> <<>>], 1)

(***************************************************************************)
(* The INTRO handler's helpers.                                            *)
(***************************************************************************)
\* ParseIntroString: "", nil, nil on any parse error
ParseIntroString(intro) ==
  IF Len(intro) # 3 THEN [id |-> "", mac |-> NilHW, ip |-> NilIP]
  ELSE IF ParseMAC(intro[2]) = NilHW THEN [id |-> "", mac |-> NilHW, ip |-> NilIP]
  ELSE IF ParseIP(intro[3]) = NilIP THEN [id |-> "", mac |-> NilHW, ip |-> NilIP]
  ELSE [id |-> intro[1], mac |-> ParseMAC(intro[2]), ip |-> ParseIP(intro[3])]

\* IsPeerUnknown: the Unknown flag of the first record with that clean address
\* IsPeerUnknown matching the source against Endpoint instead of CleanAddr
RECURSIVE IsPeerUnknownFrom_Endpoint(_, _, _)
IsPeerUnknownFrom_Endpoint(peers, addr, i) ==
  IF i > Len(peers) THEN TRUE
  ELSE IF peers[i].Endpoint = AddrString(addr) THEN peers[i].Unknown
  ELSE IsPeerUnknownFrom_Endpoint(peers, addr, i + 1)

RECURSIVE IsPeerUnknownFrom(_, _, _)
IsPeerUnknownFrom(peers, addr, i) ==
  IF i > Len(peers) THEN TRUE
  ELSE IF peers[i].CleanAddr = AddrString(addr) THEN peers[i].Unknown
  ELSE IsPeerUnknownFrom(peers, addr, i + 1)

IsPeerUnknown(peers, addr) == IsPeerUnknownFrom(peers, addr, 1)

\* AddPeer without lines 659 and 670: Unknown keeps the value it had, and
\* is set in the record appended
AddPeer_KeepUnknown(peers, addr, id, ip, mac) ==
  LET upd(p) == [p EXCEPT !.CleanAddr = AddrString(addr), !.ID = id,
                          !.PeerAddr = addr, !.PeerLocalIP = ip,
                          !.PeerHW = mac, !.Handshaked = TRUE]
      found == \E i \in 1..Len(peers) : peers[i].ID = id
  IN  IF found
      THEN [i \in 1..Len(peers) |->
              IF peers[i].ID = id THEN upd(peers[i]) ELSE peers[i]]
      ELSE Append(peers, upd([ZeroPeer EXCEPT !.Unknown = TRUE]))

\* AddPeer: every record with that id is overwritten, or one is appended
AddPeer(peers, addr, id, ip, mac) ==
  LET upd(p) == [p EXCEPT !.CleanAddr = AddrString(addr), !.ID = id,
                          !.PeerAddr = addr, !.PeerLocalIP = ip,
                          !.PeerHW = mac, !.Unknown = FALSE,
                          !.Handshaked = TRUE]
      found == \E i \in 1..Len(peers) : peers[i].ID = id
  IN  IF found
      THEN [i \in 1..Len(peers) |->
              IF peers[i].ID = id THEN upd(peers[i]) ELSE peers[i]]
      ELSE Append(peers, upd(ZeroPeer))

(***************************************************************************)
(* The environment.                                                        *)
(***************************************************************************)
\* the entries dht.Peers can hold: an id with the addresses reported for it
ViewEntries ==
  { [ID |-> "p1", Ips |-> <<"1.1.1.1:5", "10.0.0.1:5">>],
    [ID |-> "p2", Ips |-> <<"0">>],
    [ID |-> "",   Ips |-> <<>>] }

\* the rendezvous views of the open environment
Views == UNION {[1..k -> ViewEntries] : k \in 0..MaxView}

\* the addresses a liveness probe can reach inside a local network
LanAddrs == {ResolveUDPAddr("10.0.0.1:5")}

\* the source addresses of the datagrams of the open environment
SrcAddrs == {ResolveUDPAddr("1.1.1.1:5"), ResolveUDPAddr("2.2.2.2:5")}

\* INTRO payloads: three that parse, then a bad MAC, one comma, a bad IP
IntroPayloads ==
  { <<"p1", "06:0a", "10.9.0.1">>,
    <<"p2", "06:0b", "10.9.0.2">>,
    <<"p3", "06:0a", "10.9.0.3">>,
    <<"p1", "not-a-mac", "10.9.0.1">>,
    <<"p1", "06:0a">>,
    <<"p2", "06:0b", "not-an-ip">> }

\* the payloads among them that parse
GoodPayloads == {d \in IntroPayloads : ParseIntroString(d).id # ""}

\* the datagrams the open environment delivers to the agent at address to:
\* every good INTRO from either source, the others from the first source
EnvDatagrams(to) ==
  {[from |-> a, to |-> to, type |-> "INTRO", data |-> d] :
      a \in SrcAddrs, d \in GoodPayloads}
  \cup {[from |-> ResolveUDPAddr("1.1.1.1:5"), to |-> to, type |-> "INTRO",
         data |-> d] : d \in IntroPayloads \ GoodPayloads}
  \cup {[from |-> ResolveUDPAddr("1.1.1.1:5"), to |-> to, type |-> t,
         data |-> <<"frame">>] : t \in {"TEST", "NENC", "OTHER", "ERR"}}

NoMsg == [from |-> NilAddr, to |-> NilAddr, type |-> "", data |-> <<>>]

\* the locals of the calls in progress when no call is in progress: k is the
\* position SyncPeers has reached in dht.Peers, main the newPeer of SyncPeers
\* (lines 584-586) and rx the newPeer of AddPeer (lines 664-671) that are
\* built but not yet appended, each as a sequence of at most one element;
\* i is the position (1-based, 0 for none) at which the loop of AddPeer has
\* found peer.ID == id (line 652) and not yet written, arg the datagram of
\* that call, and tail the slots of the registry's backing array behind its
\* length that the range of line 651 still covers
NoPend == [k |-> 1, main |-> <<>>, rx |-> <<>>, i |-> 0, arg |-> NoMsg,
           tail |-> <<>>]

\* the (int, error) a call returns: bytes sent and whether err is non-nil;
\* also the value of the variable ret after a step that returns nothing
NoRet == [size |-> 0, err |-> FALSE]

\* the addresses at which datagrams reach agent n
AddrsOf(n) ==
  {SockAddr(n)} \cup (IF n = "p1" THEN {ResolveUDPAddr("10.0.0.1:5")} ELSE {})

\* the messages of a send sequence that are addressed to an agent of the run
Routed(msgs) ==
  {msgs[i] : i \in {j \in 1..Len(msgs) :
                      \E a \in DOMAIN pc : msgs[j].to \in AddrsOf(a)}}

KnownWithin(peers) == \A i \in 1..Len(peers) : Len(peers[i].KnownIPs) <= MaxKnown

(***************************************************************************)
(* The reconcile loop of main, lines 371-381.                              *)
(***************************************************************************)
\* dht.UpdatePeers and the two sleeps: the view for the coming pass is v
UpdatePeers(n, v) ==
  /\ ~crashed[n] /\ pc[n] = "sleep"
  /\ dhtPeers' = [dhtPeers EXCEPT ![n] = v]
  /\ pc' = [pc EXCEPT ![n] = "purge"]
  /\ stable' = [stable EXCEPT ![n] = quiet[n] /\ v = dhtPeers[n]]
  /\ quiet' = [quiet EXCEPT ![n] = TRUE]
  /\ sent' = <<>> /\ tap' = <<>> /\ ret' = NoRet
  /\ last' = [op |-> "UpdatePeers", agent |-> n, msg |-> NoMsg,
              alive |-> {}, failback |-> FALSE, dst |-> ""]
  /\ UNCHANGED <<Device, pend, NetworkPeers, count, crashed, net>>

PurgePeers(n) ==
  /\ ~crashed[n] /\ pc[n] = "purge"
  /\ \E r \in {PurgePeersOp(NetworkPeers[n], dhtPeers[n])} :
       /\ NetworkPeers' = [NetworkPeers EXCEPT ![n] = r.peers]
       /\ crashed' = [crashed EXCEPT ![n] = r.panic]
       /\ pc' = [pc EXCEPT ![n] = IF r.panic THEN "panic" ELSE "sync"]
  /\ sent' = <<>> /\ tap' = <<>> /\ ret' = NoRet
  /\ last' = [op |-> "PurgePeers", agent |-> n, msg |-> NoMsg,
              alive |-> {}, failback |-> FALSE, dst |-> ""]
  /\ UNCHANGED <<Device, pend, dhtPeers, count, quiet, stable, net>>

SyncPeers(n) ==
  /\ ~crashed[n] /\ pc[n] = "sync"
  /\ \E alive \in SUBSET LanAddrs, failback \in BOOLEAN :
       \E r \in {SyncPeersOp(NetworkPeers[n], dhtPeers[n], alive, failback)} :
         /\ Len(r.peers) <= MaxPeers /\ KnownWithin(r.peers)
         /\ NetworkPeers' = [NetworkPeers EXCEPT ![n] = r.peers]
         /\ count' = [count EXCEPT ![n] = IF r.panic THEN 0 ELSE r.count]
         /\ crashed' = [crashed EXCEPT ![n] = r.panic]
         /\ pc' = [pc EXCEPT ![n] = IF r.panic THEN "panic" ELSE "intro"]
         /\ last' = [op |-> "SyncPeers", agent |-> n, msg |-> NoMsg,
                     alive |-> alive, failback |-> failback, dst |-> ""]
  /\ sent' = <<>> /\ tap' = <<>> /\ ret' = NoRet
  /\ UNCHANGED <<Device, pend, dhtPeers, quiet, stable, net>>

\* lines 378-380: IntroducePeers runs only when SyncPeers returned a count > 0
IntroduceStep(n) ==
  /\ ~crashed[n] /\ pc[n] = "intro"
  /\ \E r \in {IF count[n] > 0 THEN IntroducePeersOp(n, NetworkPeers[n])
                 ELSE [peers |-> NetworkPeers[n], sent |-> <<>>]} :
       /\ NetworkPeers' = [NetworkPeers EXCEPT ![n] = r.peers]
       /\ sent' = r.sent
       /\ net' = net \cup Routed(r.sent)
  /\ count' = [count EXCEPT ![n] = 0]
  /\ pc' = [pc EXCEPT ![n] = "sleep"]
  /\ tap' = <<>> /\ ret' = NoRet
  /\ last' = [op |-> "IntroduceStep", agent |-> n, msg |-> NoMsg,
              alive |-> {}, failback |-> FALSE, dst |-> ""]
  /\ UNCHANGED <<Device, pend, dhtPeers, crashed, quiet, stable>>

(***************************************************************************)
(* HandleP2PMessage for the datagram d, run by the datagram-receive task   *)
(* of agent n; rest is what stays in flight.  Type "ERR" stands for a      *)
(* receive error or a datagram P2PMessageFromBytes rejects (lines 715-727),*)
(* "OTHER" for a message type the switch does not know.                    *)
(***************************************************************************)
\* lines 730-743: the registry afterwards and the reply sent
HandleIntro(n, peers, d) ==
  IF ~IsPeerUnknown(peers, d.from) THEN [peers |-> peers, sent |-> <<>>]
  ELSE LET p == ParseIntroString(d.data) IN
       [peers |-> AddPeer(peers, d.from, p.id, p.ip, p.mac),
        sent  |-> <<Msg(n, "INTRO", PrepareIntroductionMessage(n), d.from)>>]

\* WriteToDevice: the frames handed to WritePacket; none when ptp.Device is
\* nil
WriteToDevice(dev, b) == IF dev = "nil" THEN <<>> ELSE <<b>>

\* the positions of main before the goroutine of line 355 is started
BeforeListen == {"flags", "main", "created", "bound", "exit"}
\* the positions of main before the goroutine of line 370 is started
BeforeTap == BeforeListen \cup {"listening"}

\* lines 744-749 with a second SendMessage call: the echo is sent twice
HandleTest_Twice(n, peers, d) ==
  [peers |-> peers,
   sent  |-> <<Msg(n, "TEST", <<"TEST">>, d.from),
               Msg(n, "TEST", <<"TEST">>, d.from)>>]

\* lines 744-749: the echo
HandleTest(n, peers, d) ==
  [peers |-> peers, sent |-> <<Msg(n, "TEST", <<"TEST">>, d.from)>>]

\* UDPSocket.SendMessage fails for every message of the step when fail holds:
\* nothing is transmitted and the error is logged by the caller
HandleP2PMessage(n, d, rest, fails) ==
  /\ ~crashed[n] /\ pc[n] \notin BeforeListen
  /\ \E r \in {IF d.type = "INTRO" THEN HandleIntro(n, NetworkPeers[n], d)
                 ELSE IF d.type = "TEST" THEN HandleTest(n, NetworkPeers[n], d)
                 ELSE [peers |-> NetworkPeers[n], sent |-> <<>>]} :
       /\ Len(r.peers) <= MaxPeers
       /\ NetworkPeers' = [NetworkPeers EXCEPT ![n] = r.peers]
       /\ sent' = r.sent
       /\ \E fail \in (IF r.sent = <<>> THEN {FALSE} ELSE fails) :
            /\ net' = rest \cup (IF fail THEN {} ELSE Routed(r.sent))
            /\ ret' = [size |-> 0, err |-> fail]
  /\ tap' = IF d.type = "NENC" THEN WriteToDevice(Device[n], d.data) ELSE <<>>
  /\ quiet' = [quiet EXCEPT ![n] = FALSE]
  /\ stable' = [stable EXCEPT ![n] = FALSE]
  /\ last' = [op |-> "HandleP2PMessage", agent |-> n, msg |-> d,
              alive |-> {}, failback |-> FALSE, dst |-> ""]
  /\ UNCHANGED <<Device, pend, dhtPeers, pc, count, crashed>>

(***************************************************************************)
(* SendTo, called by the handlers of the frames read from the TAP device   *)
(* with the frame's destination MAC.  The first record whose PeerHW prints *)
(* like dst decides: the message goes to its PeerAddr.                     *)
(***************************************************************************)
\* SendTo without the return of line 762: the scan goes on after a match
RECURSIVE SendToFrom_All(_, _, _)
SendToFrom_All(peers, dst, i) ==
  IF i > Len(peers) THEN <<>>
  ELSE (IF peers[i].PeerHW = dst THEN <<peers[i].PeerAddr>> ELSE <<>>)
       \o SendToFrom_All(peers, dst, i + 1)

\* lines 759-765: the addresses SendMessage is called with
RECURSIVE SendToFrom(_, _, _)
SendToFrom(peers, dst, i) ==
  IF i > Len(peers) THEN <<>>
  ELSE IF peers[i].PeerHW = dst THEN <<peers[i].PeerAddr>>
  ELSE SendToFrom(peers, dst, i + 1)

\* the destination MACs of the frames the TAP device delivers
FrameMacs == {"06:0a", "06:0b", "06:0c"}

SendTo(n, dst) ==
  /\ ~crashed[n] /\ pc[n] \notin BeforeTap /\ Device[n] # "nil"
  /\ \E to \in {SendToFrom(NetworkPeers[n], dst, 1)} :
       /\ sent' = [k \in 1..Len(to) |-> Msg(n, "NENC", <<"frame">>, to[k])]
       /\ \E fail \in (IF to = <<>> THEN {FALSE} ELSE BOOLEAN) :
            /\ net' = net \cup (IF fail THEN {} ELSE Routed(sent'))
            /\ ret' = [size |-> IF fail \/ to = <<>> THEN 0 ELSE 1,
                       err |-> fail]
  /\ tap' = <<>>
  /\ last' = [op |-> "SendTo", agent |-> n, msg |-> NoMsg,
              alive |-> {}, failback |-> FALSE, dst |-> dst]
  /\ UNCHANGED <<Device, pend, NetworkPeers, dhtPeers, pc, count, crashed,
                 quiet, stable>>

\* lines 188-196: a frame read from the TAP device goes to its handler
Frame == \E n \in DOMAIN pc, dst \in FrameMacs : SendTo(n, dst)

(***************************************************************************)
(* One agent in an open environment.                                       *)
(***************************************************************************)
Agents == {"p0"}

Init ==
  /\ NetworkPeers = [n \in Agents |-> <<>>]
  /\ dhtPeers = [n \in Agents |-> <<>>]
  /\ Device = [n \in Agents |-> "open"]
  /\ pc = [n \in Agents |-> "sleep"]
  /\ count = [n \in Agents |-> 0]
  /\ pend = [n \in Agents |-> NoPend]
  /\ crashed = [n \in Agents |-> FALSE]
  /\ quiet = [n \in Agents |-> FALSE]
  /\ stable = [n \in Agents |-> FALSE]
  /\ net = {}
  /\ sent = <<>>
  /\ tap = <<>>
  /\ ret = NoRet
  /\ last = [op |-> "Init", agent |-> "", msg |-> NoMsg,
             alive |-> {}, failback |-> FALSE, dst |-> ""]

Tick == \E n \in DOMAIN pc, v \in Views : UpdatePeers(n, v)
Purge == \E n \in DOMAIN pc : PurgePeers(n)
Sync == \E n \in DOMAIN pc : SyncPeers(n)
Introduce == \E n \in DOMAIN pc : IntroduceStep(n)
Receive ==
  \E n \in DOMAIN pc : \E d \in EnvDatagrams(SockAddr(n)) :
     HandleP2PMessage(n, d, net, {FALSE})

Next == Tick \/ Purge \/ Sync \/ Introduce \/ Receive

Spec == Init /\ [][Next]_vars

\* C1: every record with Handshaked = TRUE has a non-empty Endpoint, a
\* peer virtual IP and a peer virtual MAC.
C1_HandshakedPopulated ==
  \A n \in DOMAIN NetworkPeers : \A i \in 1..Len(NetworkPeers[n]) :
     NetworkPeers[n][i].Handshaked =>
        /\ NetworkPeers[n][i].Endpoint # ""
        /\ NetworkPeers[n][i].PeerLocalIP # NilIP
        /\ NetworkPeers[n][i].PeerHW # NilHW

\* the step just taken is operation op of agent n
Did(n, op) == last.op = op /\ last.agent = n

\* C2: when a reconcile pass that no inbound message interleaved with has
\* returned, the ids of the registry are exactly the non-empty ids of the
\* view the pass started with.
C2_ReconcileMatchesView ==
  \A n \in DOMAIN pc :
     (Did(n, "IntroduceStep") /\ quiet[n]) =>
        IdsOf(NetworkPeers[n]) = ViewIds(dhtPeers[n]) \ {""}

\* the records of peers whose id is in the view, in their order
KeptByView(peers, view) ==
  LET InView(p) == p.ID \in ViewIds(view) IN SelectSeq(peers, InView)

\* C3: a PurgePeers call that returns leaves exactly the records whose id is
\* in the view, each with all its fields unchanged.
C3_PurgeExact ==
  [][\A n \in DOMAIN pc :
       (Did(n, "PurgePeers")' /\ ~crashed'[n]) =>
          NetworkPeers'[n] = KeptByView(NetworkPeers[n], dhtPeers[n])]_vars

\* the introduction payload does not parse: comma count other than two,
\* invalid MAC or invalid IP
ParseFails(data) ==
  Len(data) # 3 \/ ParseMAC(data[2]) = NilHW \/ ParseIP(data[3]) = NilIP

\* C4: handling an INTRO whose payload fails to parse leaves the registry
\* unchanged and sends no reply.
C4_BadIntroNoEffect ==
  [][\A n \in DOMAIN pc :
       (Did(n, "HandleP2PMessage")' /\ last'.msg.type = "INTRO"
          /\ ParseFails(last'.msg.data)) =>
          (NetworkPeers'[n] = NetworkPeers[n] /\ sent' = <<>>)]_vars

\* C5: a frame is written to the TAP device from a DATA_PLAIN datagram only
\* if the datagram's source address belongs to a handshaked record.
C5_TapOnlyFromHandshaked ==
  \A n \in DOMAIN pc :
     (Did(n, "HandleP2PMessage") /\ tap # <<>>) =>
        \E i \in 1..Len(NetworkPeers[n]) :
           /\ NetworkPeers[n][i].Handshaked
           /\ \/ NetworkPeers[n][i].CleanAddr = AddrString(last.msg.from)
              \/ NetworkPeers[n][i].PeerAddr = last.msg.from
              \/ NetworkPeers[n][i].Endpoint = AddrString(last.msg.from)

\* the candidates of known that lie in the network of a local interface other
\* than the overlay's device and answer the probe, in the order of known
LanPassing(known, alive, failback) ==
  LET nets == IF failback THEN <<>> ELSE LanNets(Interfaces)
      Passes(kip) == /\ kip # NilAddr /\ kip \in alive
                     /\ \E k \in 1..Len(nets) : Contains(nets[k], kip.IP)
  IN  SelectSeq(known, Passes)

\* C6: when SyncPeers has run endpoint selection for a record (empty endpoint
\* before, non-empty known addresses), the endpoint is the first LAN-scoped
\* candidate whose probe succeeded, and the first known address only when no
\* LAN-scoped candidate passed.
C6_LanCandidateWins ==
  [][\A n \in DOMAIN pc :
       (Did(n, "SyncPeers")' /\ ~crashed'[n]) =>
          \A i \in 1..Len(NetworkPeers[n]) :
             LET old == NetworkPeers[n][i]
                 new == NetworkPeers'[n][i]
                 lan == LanPassing(new.KnownIPs, last'.alive, last'.failback)
             IN  (old.Endpoint = "" /\ new.KnownIPs # <<>>
                    /\ old.ID \in ViewIds(dhtPeers[n]) \ {""}) =>
                   new.Endpoint = IF lan # <<>> THEN AddrString(lan[1])
                                  ELSE AddrString(new.KnownIPs[1])]_vars

\* C7: the introduce step of every pass sends an INTRO to every record that
\* is unknown and has a non-empty, resolvable endpoint.
C7_IntroduceEveryPass ==
  \A n \in DOMAIN pc :
     Did(n, "IntroduceStep") =>
        \A i \in 1..Len(NetworkPeers[n]) :
           LET peer == NetworkPeers[n][i] IN
           (peer.Unknown /\ peer.Endpoint # ""
              /\ ResolveUDPAddr(peer.Endpoint) # NilAddr) =>
              \E k \in 1..Len(sent) :
                 sent[k].type = "INTRO"
                 /\ sent[k].to = ResolveUDPAddr(peer.Endpoint)

\* C9: in the second of two back-to-back passes over the same view with no
\* inbound message in between, PurgePeers removes no record and the
\* introduce step sends no INTRO.
C9_SecondPassIdle ==
  [][\A n \in DOMAIN pc :
       stable[n] =>
          /\ Did(n, "PurgePeers")' => NetworkPeers'[n] = NetworkPeers[n]
          /\ Did(n, "IntroduceStep")' =>
                \A k \in 1..Len(sent') : sent'[k].type # "INTRO"]_vars

\* the source of the datagram is the clean address of a known record
FromKnownPeer(peers, d) ==
  \E i \in 1..Len(peers) :
     peers[i].CleanAddr = AddrString(d.from) /\ ~peers[i].Unknown

\* C10: an INTRO from the clean address of a record with Unknown = FALSE
\* leaves the registry unchanged and is not answered.
C10_KnownIntroDropped ==
  [][\A n \in DOMAIN pc :
       (Did(n, "HandleP2PMessage")' /\ last'.msg.type = "INTRO"
          /\ FromKnownPeer(NetworkPeers[n], last'.msg)) =>
          (NetworkPeers'[n] = NetworkPeers[n] /\ sent' = <<>>)]_vars

\* an INTRO announcing one id arrived from the clean address of a known
\* record and was dropped
C10_Witness ==
  \E n \in DOMAIN pc :
     /\ Did(n, "HandleP2PMessage") /\ last.msg.type = "INTRO"
     /\ ~ParseFails(last.msg.data)
     /\ FromKnownPeer(NetworkPeers[n], last.msg)
     /\ sent = <<>>
     /\ \E i \in 1..Len(NetworkPeers[n]) :
           /\ NetworkPeers[n][i].CleanAddr = AddrString(last.msg.from)
           /\ NetworkPeers[n][i].ID # last.msg.data[1]

\* C13: no two records of a registry carry the same non-empty peer virtual
\* MAC.
C13_MacUnique ==
  \A n \in DOMAIN NetworkPeers :
     \A i, j \in 1..Len(NetworkPeers[n]) :
        (i # j /\ NetworkPeers[n][i].PeerHW # NilHW) =>
           NetworkPeers[n][i].PeerHW # NetworkPeers[n][j].PeerHW

\* C20: no call of PurgePeers or SyncPeers panics, so the reconcile loop
\* always reaches its next tick.
C20_ReconcileNeverFaults == \A n \in DOMAIN pc : pc[n] # "panic"

(***************************************************************************)
(* Two agents under a stable rendezvous view that lists each other with    *)
(* reachable addresses.  Every INTRO sent to an address of the other agent *)
(* stays in flight until it is delivered; nothing else is delivered.  The  *)
(* reconcile loop of each agent and the datagram-receive task run forever, *)
(* so each of their steps is weakly fair.                                  *)
(***************************************************************************)
PairAgents == {"p1", "p2"}

\* the other agent of the pair
Other(n) == IF n = "p1" THEN "p2" ELSE "p1"

\* dht.Peers of agent n: the other agent, public address first
PairView(n) ==
  IF n = "p1" THEN <<[ID |-> "p2", Ips |-> <<"2.2.2.2:5">>]>>
  ELSE <<[ID |-> "p1", Ips |-> <<"1.1.1.1:5", "10.0.0.1:5">>]>>

\* the INTRO agent n sends to the socket address of the other agent
PairIntro(n) ==
  Msg(n, "INTRO", PrepareIntroductionMessage(n), SockAddr(Other(n)))

InitPair ==
  /\ NetworkPeers = [n \in PairAgents |-> <<>>]
  /\ dhtPeers = [n \in PairAgents |-> PairView(n)]
  /\ Device = [n \in PairAgents |-> "open"]
  /\ pc = [n \in PairAgents |-> "sleep"]
  /\ count = [n \in PairAgents |-> 0]
  /\ pend = [n \in PairAgents |-> NoPend]
  /\ crashed = [n \in PairAgents |-> FALSE]
  /\ quiet = [n \in PairAgents |-> FALSE]
  /\ stable = [n \in PairAgents |-> FALSE]
  /\ net = {}
  /\ sent = <<>>
  /\ tap = <<>>
  /\ ret = NoRet
  /\ last = [op |-> "Init", agent |-> "", msg |-> NoMsg,
             alive |-> {}, failback |-> FALSE, dst |-> ""]

\* UDPSocket.Listen hands the datagram m to HandleP2PMessage of its addressee
Deliver(m) ==
  /\ m \in net
  /\ \E n \in DOMAIN pc : m.to \in AddrsOf(n) /\ HandleP2PMessage(n, m, net \ {m}, {FALSE})

TickPair == \E n \in DOMAIN pc : UpdatePeers(n, PairView(n))
DeliverPair == \E m \in net : Deliver(m)

NextPair == TickPair \/ Purge \/ Sync \/ Introduce \/ DeliverPair

\* the next step of the reconcile loop of agent n
ReconcileStep(n) ==
  UpdatePeers(n, PairView(n)) \/ PurgePeers(n) \/ SyncPeers(n)
    \/ IntroduceStep(n)

FairPair ==
  \A n \in PairAgents :
     WF_vars(ReconcileStep(n)) /\ WF_vars(Deliver(PairIntro(n)))

SpecPair == InitPair /\ [][NextPair]_vars /\ FairPair

\* agent n holds the other agent's id, and every record with that id is
\* handshaked, known, and carries the other agent's configured MAC
Paired(n) ==
  /\ \E i \in 1..Len(NetworkPeers[n]) : NetworkPeers[n][i].ID = Other(n)
  /\ \A i \in 1..Len(NetworkPeers[n]) :
        NetworkPeers[n][i].ID = Other(n) =>
           /\ NetworkPeers[n][i].Handshaked
           /\ ~NetworkPeers[n][i].Unknown
           /\ NetworkPeers[n][i].PeerHW = HardwareAddr(Other(n))

C19_IntroExchangeEnds == <>[](net = {})

\* an INTRO reached an agent that already knew its source and was dropped
\* without a reply, leaving no INTRO in flight
C19_Witness ==
  \E n \in PairAgents :
     /\ DOMAIN pc = PairAgents
     /\ Did(n, "HandleP2PMessage") /\ last.msg.type = "INTRO"
     /\ FromKnownPeer(NetworkPeers[n], last.msg)
     /\ sent = <<>> /\ net = {}

\* C22: a record that stays in the registry keeps Unknown = FALSE and
\* Handshaked = TRUE once it has them: a step other than PurgePeers keeps
\* every record at its position and never sets Unknown or clears Handshaked,
\* and PurgePeers only removes records, leaving the others as they were.
C22_FlagsMonotonic ==
  [][\A n \in DOMAIN pc :
       IF last'.op = "PurgePeers" /\ last'.agent = n
       THEN \A j \in 1..Len(NetworkPeers'[n]) :
              \E i \in 1..Len(NetworkPeers[n]) :
                 NetworkPeers'[n][j] = NetworkPeers[n][i]
       ELSE \A i \in 1..Len(NetworkPeers[n]) :
              /\ i <= Len(NetworkPeers'[n])
              /\ ~NetworkPeers[n][i].Unknown => ~NetworkPeers'[n][i].Unknown
              /\ NetworkPeers[n][i].Handshaked
                   => NetworkPeers'[n][i].Handshaked]_vars

\* a SyncPeers pass has just merged the addresses of a view entry into a
\* record that an INTRO had filled before, and the record is still
\* handshaked and known
C22_Witness ==
  \E n \in Agents :
     /\ DOMAIN pc = Agents
     /\ Did(n, "SyncPeers") /\ pc[n] = "intro"
     /\ \E i \in 1..Len(NetworkPeers[n]) :
          /\ NetworkPeers[n][i].Handshaked /\ ~NetworkPeers[n][i].Unknown
          /\ NetworkPeers[n][i].ID \in ViewIds(dhtPeers[n])
          /\ NetworkPeers[n][i].ID # ""
          /\ NetworkPeers[n][i].KnownIPs # <<>>
          /\ NetworkPeers[n][i].Endpoint # ""

(***************************************************************************)
(* The reconcile loop and the datagram-receive task as the goroutines they *)
(* are (lines 355 and 371): the file holds no lock, so the steps of one    *)
(* run between the statements of the other.  SyncPeers is taken one entry  *)
(* of dht.Peers at a time, with the search of lines 508-581 and the append *)
(* of line 587 as separate steps; AddPeer likewise, with the search of     *)
(* lines 651-662 and the append of line 672.  An append itself is one step.*)
(***************************************************************************)
\* lines 503-586 for the entry at position pend[n].k
SyncScan(n) ==
  /\ ~crashed[n] /\ pc[n] = "sync" /\ pend[n].main = <<>>
  /\ pend[n].k <= Len(dhtPeers[n])
  /\ \E alive \in SUBSET LanAddrs, failback \in BOOLEAN :
       \E r \in {SyncRecords([peers |-> NetworkPeers[n], count |-> count[n],
                              panic |-> FALSE, found |-> FALSE],
                             1, dhtPeers[n][pend[n].k], alive, failback)} :
         LET id == dhtPeers[n][pend[n].k].ID IN
         /\ KnownWithin(r.peers)
         /\ last' = [op |-> "SyncScan", agent |-> n, msg |-> NoMsg,
                     alive |-> alive, failback |-> failback, dst |-> ""]
         /\ crashed' = [crashed EXCEPT ![n] = id # "" /\ r.panic]
         /\ IF id = "" THEN
              /\ pend' = [pend EXCEPT ![n].k = @ + 1]
              /\ UNCHANGED <<NetworkPeers, count, pc>>
            ELSE IF r.panic THEN
              /\ NetworkPeers' = [NetworkPeers EXCEPT ![n] = r.peers]
              /\ pc' = [pc EXCEPT ![n] = "panic"]
              /\ UNCHANGED <<count, pend>>
            ELSE IF r.found THEN
              /\ NetworkPeers' = [NetworkPeers EXCEPT ![n] = r.peers]
              /\ count' = [count EXCEPT ![n] = r.count]
              /\ pend' = [pend EXCEPT ![n].k = @ + 1]
              /\ UNCHANGED pc
            ELSE
              /\ pend' = [pend EXCEPT ![n].main =
                            <<[ZeroPeer EXCEPT !.ID = id, !.Unknown = TRUE]>>]
              /\ UNCHANGED <<NetworkPeers, count, pc>>
  /\ sent' = <<>> /\ tap' = <<>> /\ ret' = NoRet
  /\ UNCHANGED <<Device, dhtPeers, quiet, stable, net>>

\* line 587: newPeer goes to the end of the registry as it is now
SyncAppend(n) ==
  /\ ~crashed[n] /\ pc[n] = "sync" /\ pend[n].main # <<>>
  /\ Len(NetworkPeers[n]) < MaxPeers
  /\ NetworkPeers' = [NetworkPeers EXCEPT ![n] = Append(@, pend[n].main[1])]
  /\ pend' = [pend EXCEPT ![n].main = <<>>, ![n].k = @ + 1]
  /\ sent' = <<>> /\ tap' = <<>> /\ ret' = NoRet
  /\ last' = [op |-> "SyncAppend", agent |-> n, msg |-> NoMsg,
              alive |-> {}, failback |-> FALSE, dst |-> ""]
  /\ UNCHANGED <<Device, dhtPeers, pc, count, crashed, quiet, stable, net>>

\* line 591: dht.Peers is exhausted, SyncPeers returns count
SyncReturn(n) ==
  /\ ~crashed[n] /\ pc[n] = "sync" /\ pend[n].main = <<>>
  /\ pend[n].k > Len(dhtPeers[n])
  /\ pc' = [pc EXCEPT ![n] = "intro"]
  /\ pend' = [pend EXCEPT ![n].k = 1]
  /\ sent' = <<>> /\ tap' = <<>> /\ ret' = NoRet
  /\ last' = [op |-> "SyncReturn", agent |-> n, msg |-> NoMsg,
              alive |-> {}, failback |-> FALSE, dst |-> ""]
  /\ UNCHANGED <<Device, NetworkPeers, dhtPeers, count, crashed, quiet, stable, net>>

\* lines 733-738 and 650-671 for the INTRO d: the drop, or the overwrite of
\* the records found and the reply, or newPeer built for the append
IntroScan(n, d) ==
  /\ ~crashed[n] /\ pc[n] \notin BeforeListen
  /\ pend[n].rx = <<>> /\ d.type = "INTRO"
  /\ LET p == ParseIntroString(d.data)
         found == \E i \in 1..Len(NetworkPeers[n]) : NetworkPeers[n][i].ID = p.id
     IN  IF ~IsPeerUnknown(NetworkPeers[n], d.from) THEN
           /\ sent' = <<>>
           /\ UNCHANGED <<NetworkPeers, pend>>
         ELSE IF found THEN
           /\ NetworkPeers' = [NetworkPeers EXCEPT ![n] =
                                 AddPeer(@, d.from, p.id, p.ip, p.mac)]
           /\ sent' = <<Msg(n, "INTRO", PrepareIntroductionMessage(n), d.from)>>
           /\ UNCHANGED pend
         ELSE
           /\ pend' = [pend EXCEPT ![n].rx =
                         AddPeer(<<>>, d.from, p.id, p.ip, p.mac)]
           /\ sent' = <<>>
           /\ UNCHANGED NetworkPeers
  /\ net' = net \cup Routed(sent')
  /\ tap' = <<>> /\ ret' = NoRet
  /\ quiet' = [quiet EXCEPT ![n] = FALSE]
  /\ stable' = [stable EXCEPT ![n] = FALSE]
  /\ last' = [op |-> "IntroScan", agent |-> n, msg |-> d,
              alive |-> {}, failback |-> FALSE, dst |-> ""]
  /\ UNCHANGED <<Device, dhtPeers, pc, count, crashed>>

\* lines 672 and 739-740: the append, then the reply to the source
IntroAppend(n) ==
  /\ ~crashed[n] /\ pend[n].rx # <<>>
  /\ Len(NetworkPeers[n]) < MaxPeers
  /\ NetworkPeers' = [NetworkPeers EXCEPT ![n] = Append(@, pend[n].rx[1])]
  /\ pend' = [pend EXCEPT ![n].rx = <<>>]
  /\ sent' = <<Msg(n, "INTRO", PrepareIntroductionMessage(n),
                   pend[n].rx[1].PeerAddr)>>
  /\ net' = net \cup Routed(sent')
  /\ tap' = <<>> /\ ret' = NoRet
  /\ last' = [op |-> "IntroAppend", agent |-> n, msg |-> NoMsg,
              alive |-> {}, failback |-> FALSE, dst |-> ""]
  /\ UNCHANGED <<Device, dhtPeers, pc, count, crashed, quiet, stable>>

\* the datagrams the environment delivers in this specification: the INTROs
\* whose payload parses
RaceDatagrams(to) ==
  {d \in EnvDatagrams(to) : d.type = "INTRO" /\ d.data \in GoodPayloads}

SyncEntryScan == \E n \in DOMAIN pc : SyncScan(n)
SyncEntryAppend == \E n \in DOMAIN pc : SyncAppend(n)
SyncDone == \E n \in DOMAIN pc : SyncReturn(n)
ReceiveScan ==
  \E n \in DOMAIN pc : \E d \in RaceDatagrams(SockAddr(n)) : IntroScan(n, d)
ReceiveAppend == \E n \in DOMAIN pc : IntroAppend(n)

NextRace ==
  Tick \/ Purge \/ SyncEntryScan \/ SyncEntryAppend \/ SyncDone \/ Introduce
    \/ ReceiveScan \/ ReceiveAppend

SpecRace == Init /\ [][NextRace]_vars

\* C14: no two records of a registry share an id, also when SyncPeers and
\* AddPeer interleave and when the view lists an id more than once.
C14_IdUnique ==
  \A n \in DOMAIN NetworkPeers :
     \A i, j \in 1..Len(NetworkPeers[n]) :
        i # j => NetworkPeers[n][i].ID # NetworkPeers[n][j].ID

\* the reconcile task of agent n is inside SyncPeers, which writes the registry
InSyncPeers(n) == pc[n] = "sync" /\ (pend[n].k > 1 \/ pend[n].main # <<>>)
\* the datagram-receive task of agent n is inside AddPeer, which writes it
InAddPeer(n) == pend[n].rx # <<>>

\* C15: no task is inside an operation that writes the registry while
\* another task is inside an operation that reads or writes it.
C15_SingleWriter ==
  \A n \in DOMAIN pc : ~(InSyncPeers(n) /\ InAddPeer(n))

(***************************************************************************)
(* AddPeer's loop against PurgePeers.  The range of line 651 takes the     *)
(* registry's slice header once: its length is fixed for the loop, and     *)
(* peer is read from the backing array as it is at each iteration.  The    *)
(* writes of lines 654-660 index ptp.NetworkPeers as it is when they run.  *)
(* PurgePeers removes in place: append(s[:i], s[i+1:]...) has room in the  *)
(* same array, moves the later records one slot down and leaves the last   *)
(* slot as it was.  The loop is taken from its start to the first          *)
(* successful test of line 652 as one step, and the writes with the        *)
(* iterations up to the next successful test as another; PurgePeers is one *)
(* step that can fall between them.  SyncPeers is taken between two calls  *)
(* of AddPeer only: whether its append moves the registry to a new array,  *)
(* which the range would not follow, depends on the capacity the runtime   *)
(* chose.                                                                  *)
(***************************************************************************)
\* the copy of append(s[:i], s[i+1:]...) for the Go index k - 1 on an array
\* whose first len slots are the registry
ShiftAt(arr, len, k) ==
  [j \in 1..Len(arr) |-> IF j >= k /\ j < len THEN arr[j + 1] ELSE arr[j]]

\* lines 437-439 on the backing array
RECURSIVE ShiftRemove(_, _, _)
ShiftRemove(arr, len, rem) ==
  IF rem = <<>> THEN [panic |-> FALSE, arr |-> arr, len |-> len]
  ELSE IF Head(rem) + 1 > len THEN [panic |-> TRUE, arr |-> arr, len |-> len]
  ELSE ShiftRemove(ShiftAt(arr, len, Head(rem) + 1), len - 1, Tail(rem))

\* lines 654-660 for the index i - 1
AddPeerAt(peers, i, addr, id, ip, mac) ==
  [peers EXCEPT ![i] = [@ EXCEPT !.CleanAddr = AddrString(addr), !.ID = id,
                                 !.PeerAddr = addr, !.PeerLocalIP = ip,
                                 !.PeerHW = mac, !.Unknown = FALSE,
                                 !.Handshaked = TRUE]]

\* lines 651-652: the first position from i on whose slot holds the id, 0 when
\* the range ends without one
FirstMatch(arr, id, i) ==
  LET m == {j \in i..Len(arr) : arr[j].ID = id}
  IN  IF m = {} THEN 0 ELSE CHOOSE j \in m : \A k \in m : j <= k

\* lines 733-738 and 650-653 for the INTRO d: the handler as a whole when the
\* source is known or no record holds the id, else the loop up to the first
\* record that holds it
AddPeerMatch(n, d) ==
  /\ pend[n].i = 0 /\ d.type = "INTRO"
  /\ \E i \in {FirstMatch(NetworkPeers[n], ParseIntroString(d.data).id, 1)} :
       IF ~IsPeerUnknown(NetworkPeers[n], d.from) \/ i = 0
       THEN HandleP2PMessage(n, d, net, {FALSE})
       ELSE /\ ~crashed[n] /\ pc[n] \notin BeforeListen
            /\ pend' = [pend EXCEPT ![n].i = i, ![n].arg = d]
            /\ sent' = <<>> /\ tap' = <<>> /\ ret' = NoRet
            /\ quiet' = [quiet EXCEPT ![n] = FALSE]
            /\ stable' = [stable EXCEPT ![n] = FALSE]
            /\ last' = [op |-> "AddPeerMatch", agent |-> n, msg |-> d,
                        alive |-> {}, failback |-> FALSE, dst |-> ""]
            /\ UNCHANGED <<Device, NetworkPeers, dhtPeers, pc, count, crashed,
                           net>>

\* lines 654-660 at the position found, on the registry as it is now, then
\* the loop up to the next record that holds the id; when the range ends,
\* found is true, nothing is appended and the reply goes out (lines 739-740).
\* ptp.NetworkPeers[i] panics when the registry has shrunk to i or less.
AddPeerWrite(n) ==
  /\ ~crashed[n] /\ pend[n].i > 0
  /\ LET i == pend[n].i
         d == pend[n].arg
         p == ParseIntroString(d.data)
     IN  IF i > Len(NetworkPeers[n]) THEN
           /\ crashed' = [crashed EXCEPT ![n] = TRUE]
           /\ pc' = [pc EXCEPT ![n] = "panic"]
           /\ pend' = [pend EXCEPT ![n].i = 0, ![n].arg = NoMsg,
                                   ![n].tail = <<>>]
           /\ sent' = <<>>
           /\ UNCHANGED NetworkPeers
         ELSE
           \E r \in {AddPeerAt(NetworkPeers[n], i, d.from, p.id, p.ip, p.mac)} :
             \E j \in {FirstMatch(r \o pend[n].tail, p.id, i + 1)} :
               /\ NetworkPeers' = [NetworkPeers EXCEPT ![n] = r]
               /\ pend' = [pend EXCEPT
                             ![n].i = j,
                             ![n].arg = IF j = 0 THEN NoMsg ELSE @,
                             ![n].tail = IF j = 0 THEN <<>> ELSE @]
               /\ sent' = IF j = 0
                          THEN <<Msg(n, "INTRO", PrepareIntroductionMessage(n),
                                     d.from)>>
                          ELSE <<>>
               /\ UNCHANGED <<pc, crashed>>
  /\ net' = net \cup Routed(sent')
  /\ tap' = <<>> /\ ret' = NoRet
  /\ last' = [op |-> "AddPeerWrite", agent |-> n, msg |-> pend[n].arg,
              alive |-> {}, failback |-> FALSE, dst |-> ""]
  /\ UNCHANGED <<Device, dhtPeers, count, quiet, stable>>

\* PurgePeers on the backing array: the registry is its first len slots, and
\* a range under way keeps the slots behind them
PurgeShift(n) ==
  /\ ~crashed[n] /\ pc[n] = "purge"
  /\ \E r \in {ShiftRemove(NetworkPeers[n] \o pend[n].tail,
                           Len(NetworkPeers[n]),
                           PurgeRem(NetworkPeers[n], dhtPeers[n], 1))} :
       /\ NetworkPeers' = [NetworkPeers EXCEPT ![n] = SubSeq(r.arr, 1, r.len)]
       /\ pend' = [pend EXCEPT ![n].tail =
                     IF pend[n].i > 0
                     THEN SubSeq(r.arr, r.len + 1, Len(r.arr)) ELSE <<>>]
       /\ crashed' = [crashed EXCEPT ![n] = r.panic]
       /\ pc' = [pc EXCEPT ![n] = IF r.panic THEN "panic" ELSE "sync"]
  /\ sent' = <<>> /\ tap' = <<>> /\ ret' = NoRet
  /\ last' = [op |-> "PurgePeers", agent |-> n, msg |-> NoMsg,
              alive |-> {}, failback |-> FALSE, dst |-> ""]
  /\ UNCHANGED <<Device, dhtPeers, count, quiet, stable, net>>

PurgeUnder == \E n \in DOMAIN pc : PurgeShift(n)
SyncBetween == \E n \in DOMAIN pc : pend[n].i = 0 /\ SyncPeers(n)
ReceiveMatch ==
  \E n \in DOMAIN pc : \E d \in RaceDatagrams(SockAddr(n)) : AddPeerMatch(n, d)
ReceiveWrite == \E n \in DOMAIN pc : AddPeerWrite(n)

NextShift ==
  Tick \/ PurgeUnder \/ SyncBetween \/ Introduce \/ ReceiveMatch
    \/ ReceiveWrite

SpecShift == Init /\ [][NextShift]_vars

\* C21: a step of the handler of an INTRO announcing id X leaves the id, the
\* clean address, the virtual IP and the virtual MAC of every record whose id
\* is not X as they were, also when PurgePeers runs between the test of line
\* 652 and the writes of lines 654-660.
C21_IntroTouchesOnlyItsRecord ==
  [][\A n \in DOMAIN pc :
       (/\ last'.agent = n
        /\ last'.op \in {"AddPeerMatch", "AddPeerWrite", "HandleP2PMessage"}
        /\ last'.msg.type = "INTRO")
       => \A j \in 1..Len(NetworkPeers[n]) :
            NetworkPeers[n][j].ID # ParseIntroString(last'.msg.data).id
            => /\ j <= Len(NetworkPeers'[n])
               /\ NetworkPeers'[n][j].ID = NetworkPeers[n][j].ID
               /\ NetworkPeers'[n][j].CleanAddr = NetworkPeers[n][j].CleanAddr
               /\ NetworkPeers'[n][j].PeerLocalIP = NetworkPeers[n][j].PeerLocalIP
               /\ NetworkPeers'[n][j].PeerHW = NetworkPeers[n][j].PeerHW]_vars

(***************************************************************************)
(* main from its first line: the flags, CreateDevice, the datagram socket  *)
(* and the rendezvous client, then the goroutines and the reconcile loop.  *)
(***************************************************************************)
\* what the command line holds: usable flags, no -ip, or a -mac that
\* net.ParseMAC rejects
FlagCases == {"ok", "noip", "badmac"}

\* how CreateDevice ends: without error, or with the first step that fails
SetupCases == {"ok", "yaml", "open", "linkup", "setip", "setmac"}

\* CreateDevice when case c happens: ptp.Device and whether err is non-nil
CreateDeviceOp(c) ==
  [dev |-> IF c \in {"yaml", "open"} THEN "nil" ELSE "open", err |-> c # "ok"]

\* lines 296-315: os.Exit(1) without -ip, return on a bad -mac
ParseFlags(n, c) ==
  /\ ~crashed[n] /\ pc[n] = "flags"
  /\ pc' = [pc EXCEPT ![n] = IF c = "ok" THEN "main" ELSE "exit"]
  /\ sent' = <<>> /\ tap' = <<>> /\ ret' = NoRet
  /\ last' = [op |-> "ParseFlags", agent |-> n, msg |-> NoMsg,
              alive |-> {}, failback |-> FALSE, dst |-> ""]
  /\ UNCHANGED <<NetworkPeers, dhtPeers, Device, count, pend, crashed, quiet,
                 stable, net>>

\* line 344: the call of CreateDevice; ret holds the error it returns
CreateDevice(n, c) ==
  /\ ~crashed[n] /\ pc[n] = "main"
  /\ \E r \in {CreateDeviceOp(c)} :
       /\ Device' = [Device EXCEPT ![n] = r.dev]
       /\ ret' = [size |-> 0, err |-> r.err]
  /\ pc' = [pc EXCEPT ![n] = "created"]
  /\ sent' = <<>> /\ tap' = <<>>
  /\ last' = [op |-> "CreateDevice", agent |-> n, msg |-> NoMsg,
              alive |-> {}, failback |-> FALSE, dst |-> ""]
  /\ UNCHANGED <<NetworkPeers, dhtPeers, count, pend, crashed, quiet, stable,
                 net>>

\* lines 344-353: the value CreateDevice returned is dropped; the socket is
\* bound and the rendezvous client initialized
BindSocket(n) ==
  /\ ~crashed[n] /\ pc[n] = "created"
  /\ pc' = [pc EXCEPT ![n] = "bound"]
  /\ sent' = <<>> /\ tap' = <<>> /\ ret' = NoRet
  /\ last' = [op |-> "BindSocket", agent |-> n, msg |-> NoMsg,
              alive |-> {}, failback |-> FALSE, dst |-> ""]
  /\ UNCHANGED <<NetworkPeers, dhtPeers, Device, count, pend, crashed, quiet,
                 stable, net>>

\* line 355: the datagram-receive task is started
StartListen(n) ==
  /\ ~crashed[n] /\ pc[n] = "bound"
  /\ pc' = [pc EXCEPT ![n] = "listening"]
  /\ sent' = <<>> /\ tap' = <<>> /\ ret' = NoRet
  /\ last' = [op |-> "StartListen", agent |-> n, msg |-> NoMsg,
              alive |-> {}, failback |-> FALSE, dst |-> ""]
  /\ UNCHANGED <<NetworkPeers, dhtPeers, Device, count, pend, crashed, quiet,
                 stable, net>>

\* lines 370-372: the TAP-read task is started and the reconcile loop entered
StartLoop(n) ==
  /\ ~crashed[n] /\ pc[n] = "listening"
  /\ pc' = [pc EXCEPT ![n] = "sleep"]
  /\ sent' = <<>> /\ tap' = <<>> /\ ret' = NoRet
  /\ last' = [op |-> "StartLoop", agent |-> n, msg |-> NoMsg,
              alive |-> {}, failback |-> FALSE, dst |-> ""]
  /\ UNCHANGED <<NetworkPeers, dhtPeers, Device, count, pend, crashed, quiet,
                 stable, net>>

\* lines 188-192 with ptp.Device nil: ReadPacket dereferences the nil device
\* and the panic ends the process.  With the device open the frames read go
\* to SendTo.
ListenInterface(n) ==
  /\ ~crashed[n] /\ pc[n] \notin BeforeTap /\ Device[n] = "nil"
  /\ crashed' = [crashed EXCEPT ![n] = TRUE]
  /\ sent' = <<>> /\ tap' = <<>> /\ ret' = NoRet
  /\ last' = [op |-> "ListenInterface", agent |-> n, msg |-> NoMsg,
              alive |-> {}, failback |-> FALSE, dst |-> ""]
  /\ UNCHANGED <<NetworkPeers, dhtPeers, Device, pc, count, pend, quiet,
                 stable, net>>

\* the environment of this specification: views of at most one entry, and
\* one datagram of each type
BootViews == {v \in Views : Len(v) <= 1}
BootDatagrams(to) ==
  {d \in EnvDatagrams(to) :
     d.type # "INTRO" \/ (d.from = ResolveUDPAddr("1.1.1.1:5")
                            /\ d.data = <<"p1", "06:0a", "10.9.0.1">>)}

InitBoot ==
  /\ NetworkPeers = [n \in Agents |-> <<>>]
  /\ dhtPeers = [n \in Agents |-> <<>>]
  /\ Device = [n \in Agents |-> "nil"]
  /\ pc = [n \in Agents |-> "flags"]
  /\ count = [n \in Agents |-> 0]
  /\ pend = [n \in Agents |-> NoPend]
  /\ crashed = [n \in Agents |-> FALSE]
  /\ quiet = [n \in Agents |-> FALSE]
  /\ stable = [n \in Agents |-> FALSE]
  /\ net = {}
  /\ sent = <<>>
  /\ tap = <<>>
  /\ ret = NoRet
  /\ last = [op |-> "Init", agent |-> "", msg |-> NoMsg,
             alive |-> {}, failback |-> FALSE, dst |-> ""]

Flags == \E n \in DOMAIN pc, c \in FlagCases : ParseFlags(n, c)
Setup == \E n \in DOMAIN pc, c \in SetupCases : CreateDevice(n, c)
Bind == \E n \in DOMAIN pc : BindSocket(n)
Listen == \E n \in DOMAIN pc : StartListen(n)
Loop == \E n \in DOMAIN pc : StartLoop(n)
TapRead == \E n \in DOMAIN pc : ListenInterface(n)
TickBoot == \E n \in DOMAIN pc, v \in BootViews : UpdatePeers(n, v)
ReceiveBoot ==
  \E n \in DOMAIN pc : \E d \in BootDatagrams(SockAddr(n)) :
     HandleP2PMessage(n, d, net, BOOLEAN)

NextBoot ==
  Flags \/ Setup \/ Bind \/ Listen \/ Loop \/ TapRead \/ TickBoot \/ Purge
    \/ Sync \/ Introduce \/ ReceiveBoot \/ Frame

SpecBoot == InitBoot /\ [][NextBoot]_vars

\* C16: when CreateDevice has returned an error, the next step of main ends
\* the process: the socket is not bound and no task is started.
C16_SetupErrorTerminates ==
  [][\A n \in DOMAIN pc :
       (Did(n, "CreateDevice") /\ ret.err /\ pc'[n] # pc[n]) =>
          pc'[n] = "exit"]_vars

(***************************************************************************)
(* The reconcile loop alone, under views whose address lists repeat an     *)
(* address, hold the placeholders "" and "0", or hold a text that          *)
(* net.ResolveUDPAddr rejects.                                             *)
(***************************************************************************)
MergeEntries ==
  { [ID |-> "p1", Ips |-> <<"10.0.0.1:5", "10.0.0.1:5">>],
    [ID |-> "p1", Ips |-> <<"0", "1.1.1.1:5", "">>],
    [ID |-> "p2", Ips |-> <<"", "no-port", "0">>] }

MergeViews == UNION {[1..k -> MergeEntries] : k \in 0..MaxView}

TickMerge == \E n \in DOMAIN pc, v \in MergeViews : UpdatePeers(n, v)

NextMerge == TickMerge \/ Purge \/ Sync \/ Introduce

SpecMerge == Init /\ [][NextMerge]_vars

\* the address texts of a list of addresses are pairwise different
Distinct(known) ==
  \A i, j \in 1..Len(known) :
     i # j => AddrString(known[i]) # AddrString(known[j])

\* the addresses the entries of view with that id list, "" and "0" left out
Listed(view, id) ==
  UNION {{ResolveUDPAddr(view[k].Ips[m]) :
            m \in {y \in 1..Len(view[k].Ips) : view[k].Ips[y] \notin {"", "0"}}} :
         k \in {x \in 1..Len(view) : view[x].ID = id}}

\* C18: after a SyncPeers pass the KnownIPs of every record hold no address
\* text twice, and hold only what they held before and the addresses the view
\* lists for the record's id.
C18_KnownIPsDistinctUnion ==
  [][\A n \in DOMAIN pc :
       (Did(n, "SyncPeers")' /\ ~crashed'[n]) =>
          \A i \in 1..Len(NetworkPeers'[n]) :
             LET new == NetworkPeers'[n][i].KnownIPs
                 old == IF i <= Len(NetworkPeers[n])
                        THEN NetworkPeers[n][i].KnownIPs ELSE <<>>
             IN  /\ Distinct(new)
                 /\ \A k \in 1..Len(new) :
                       \/ \E m \in 1..Len(old) : old[m] = new[k]
                       \/ new[k] \in Listed(dhtPeers[n],
                                           NetworkPeers'[n][i].ID)]_vars

(***************************************************************************)
(* The agent with the handlers of the frames read from the TAP device,     *)
(* which call SendTo (line 196), under views of at most one entry, the     *)
(* INTROs whose payload parses and TEST datagrams.  UDPSocket.SendMessage  *)
(* can fail.                                                               *)
(***************************************************************************)
SendDatagrams(to) ==
  {d \in EnvDatagrams(to) :
     d.type = "TEST" \/ (d.type = "INTRO" /\ d.data \in GoodPayloads)}

TickSend == \E n \in DOMAIN pc, v \in BootViews : UpdatePeers(n, v)
ReceiveSend ==
  \E n \in DOMAIN pc : \E d \in SendDatagrams(SockAddr(n)) :
     HandleP2PMessage(n, d, net, BOOLEAN)

NextSend == TickSend \/ Purge \/ Sync \/ Introduce \/ ReceiveSend \/ Frame

SpecSend == Init /\ [][NextSend]_vars

\* the positions of the records of peers whose peer virtual MAC is dst
Matching(peers, dst) == {i \in 1..Len(peers) : peers[i].PeerHW = dst}

\* C11: SendTo for a destination MAC that matches only records with an
\* empty Endpoint transmits no datagram.
C11_NoSendToEmptyEndpoint ==
  \A n \in DOMAIN pc :
     (Did(n, "SendTo") /\ Matching(NetworkPeers[n], last.dst) # {}
        /\ \A i \in Matching(NetworkPeers[n], last.dst) :
              NetworkPeers[n][i].Endpoint = "") =>
        sent = <<>>

\* C12: SendTo leaves the registry unchanged; for a destination MAC that no
\* record carries it calls SendMessage never and returns (0, nil); for one
\* that a record carries it calls SendMessage exactly once, with the frame.
C12_SendToOnceOrNever ==
  [][\A n \in DOMAIN pc :
       Did(n, "SendTo")' =>
          /\ NetworkPeers' = NetworkPeers
          /\ IF Matching(NetworkPeers[n], last'.dst) = {}
             THEN sent' = <<>> /\ ret' = [size |-> 0, err |-> FALSE]
             ELSE /\ Len(sent') = 1
                  /\ sent'[1].type = "NENC" /\ sent'[1].data = <<"frame">>
                  /\ \E i \in Matching(NetworkPeers[n], last'.dst) :
                        sent'[1].to = NetworkPeers[n][i].PeerAddr]_vars

\* a frame was sent for a MAC that two records carry, and one was dropped
\* for a MAC that no record of a non-empty registry carries
C12_Witness ==
  \E n \in DOMAIN pc :
     /\ Did(n, "SendTo")
     /\ \/ Cardinality(Matching(NetworkPeers[n], last.dst)) = 2 /\ Len(sent) = 1
        \/ /\ Matching(NetworkPeers[n], last.dst) = {} /\ sent = <<>>
           /\ \E i \in 1..Len(NetworkPeers[n]) :
                 NetworkPeers[n][i].PeerHW # NilHW

\* C17: handling a TEST datagram calls SendMessage exactly once, with a TEST
\* message for the datagram's source, and changes neither the registry nor
\* any other state of the agent nor the TAP device, also when the send fails.
C17_TestEchoOnly ==
  [][\A n \in DOMAIN pc :
       (Did(n, "HandleP2PMessage")' /\ last'.msg.type = "TEST") =>
          /\ sent' = <<[from |-> SockAddr(n), to |-> last'.msg.from,
                        type |-> "TEST", data |-> <<"TEST">>]>>
          /\ tap' = <<>>
          /\ UNCHANGED <<NetworkPeers, dhtPeers, Device, pc, count, pend,
                         crashed>>
          /\ ret'.err => net' = net]_vars

\* a TEST datagram was handled by an agent with a non-empty registry and the
\* echo failed to send
C17_Witness ==
  \E n \in DOMAIN pc :
     /\ Did(n, "HandleP2PMessage") /\ last.msg.type = "TEST"
     /\ NetworkPeers[n] # <<>>
     /\ Len(sent) = 1 /\ ret.err

====
